---- MODULE Spec2Model ----
(***************************************************************************)
(* Model of main.py of fletsocket: the two persisted records               *)
(* (scanner_settings.json, scan_history.json), the two lru_cache'd loaders,*)
(* the two savers, the validators and the click handler check_port.        *)
(*                                                                         *)
(* A text is a sequence of one-character strings, so that int(port) is     *)
(* computed digit by digit.  Accented letters of the source's literals are *)
(* written without the accent ("ferme" stands for the source's status of a *)
(* closed port).  A date is the clock's reading in seconds; strftime and   *)
(* the JSON string encoding are injective on it.                           *)
(***************************************************************************)
EXTENDS Integers, Sequences, FiniteSets, TLC

VARIABLES
    settings_file,        \* content of SETTINGS_FILE on disk
    history_file,         \* content of HISTORY_FILE on disk
    load_settings_cache,  \* the lru_cache(maxsize=1) slot of load_settings
    load_history_cache,   \* the lru_cache(maxsize=1) slot of load_history
    now,                  \* datetime.now(), in seconds
    call,                 \* the last call made: function, arguments, exception
    ret_settings,         \* what the last load_settings call returned
    ret_history,          \* what the last load_history call returned
    ui,                   \* error_text of both fields and the result text
    effects               \* what the last check_port did, in order

vars == <<settings_file, history_file, load_settings_cache, load_history_cache,
          now, call, ret_settings, ret_history, ui, effects>>

store_vars == <<settings_file, history_file, load_settings_cache, load_history_cache>>

----------------------------------------------------------------------------
(* Bounds and program constants *)

MaxClock == 1

HistoryCap == 30

MinPort == 1

MaxPort == 65535

----------------------------------------------------------------------------
(* Texts *)

None == "None"

Digits == {"0", "1", "2", "3", "4", "5", "6", "7", "8", "9"}

DigitVal == [c \in Digits |->
    CASE c = "0" -> 0 [] c = "1" -> 1 [] c = "2" -> 2 [] c = "3" -> 3
      [] c = "4" -> 4 [] c = "5" -> 5 [] c = "6" -> 6 [] c = "7" -> 7
      [] c = "8" -> 8 [] c = "9" -> 9]

DigitChar == [d \in 0..9 |-> CHOOSE c \in Digits : DigitVal[c] = d]

RECURSIVE Str(_)
Str(n) == IF n < 10 THEN <<DigitChar[n]>>
          ELSE Str(n \div 10) \o <<DigitChar[n % 10]>>

RECURSIVE LStrip(_)
LStrip(s) == IF s # <<>> /\ Head(s) = " " THEN LStrip(Tail(s)) ELSE s

RECURSIVE RStrip(_)
RStrip(s) == IF s # <<>> /\ s[Len(s)] = " " THEN RStrip(SubSeq(s, 1, Len(s) - 1)) ELSE s

RECURSIVE DigitsValue(_)
DigitsValue(s) == IF s = <<>> THEN 0
                  ELSE 10 * DigitsValue(SubSeq(s, 1, Len(s) - 1)) + DigitVal[s[Len(s)]]

\* int(text): surrounding blanks stripped, an optional sign, then decimal
\* digits; anything else raises ValueError.
int(text) ==
    LET t == RStrip(LStrip(text))
        signed == t # <<>> /\ Head(t) \in {"+", "-"}
        d == IF signed THEN Tail(t) ELSE t
    IN  IF d = <<>> \/ \E i \in 1..Len(d) : d[i] \notin Digits
        THEN [raised |-> "ValueError", value |-> 0]
        ELSE [raised |-> None,
              value |-> IF signed /\ Head(t) = "-" THEN 0 - DigitsValue(d)
                        ELSE DigitsValue(d)]

----------------------------------------------------------------------------
(* ipaddress.ip_address and the properties validate_ip reads *)

NotAnAddress == [raised |-> "ValueError", is_private |-> FALSE, is_loopback |-> FALSE,
                 is_link_local |-> FALSE, is_global |-> FALSE]

Address(priv, loop, link, glob) ==
    [raised |-> None, is_private |-> priv, is_loopback |-> loop,
     is_link_local |-> link, is_global |-> glob]

ip_address(ip) ==
    CASE ip = "8.8.8.8"              -> Address(FALSE, FALSE, FALSE, TRUE)
      [] ip = "2001:4860:4860::8888" -> Address(FALSE, FALSE, FALSE, TRUE)
      [] ip = "100.64.0.1"           -> Address(FALSE, FALSE, FALSE, FALSE)
      [] ip = "192.168.1.1"          -> Address(TRUE, FALSE, FALSE, FALSE)
      [] ip = "10.0.0.1"             -> Address(TRUE, FALSE, FALSE, FALSE)
      [] ip = "127.0.0.1"            -> Address(TRUE, TRUE, FALSE, FALSE)
      [] ip = "169.254.1.1"          -> Address(TRUE, FALSE, TRUE, FALSE)
      [] ip = "::1"                  -> Address(TRUE, TRUE, FALSE, FALSE)
      [] ip = "fe80::1"              -> Address(TRUE, FALSE, TRUE, FALSE)
      [] OTHER                       -> NotAnAddress

\* validate_ip with is_private left out of the refused classes
validate_ip_without_private(ip) ==
    LET ip_addr == ip_address(ip)
    IN  IF ip_addr.raised # None THEN "Adresse IP invalide"
        ELSE IF ip_addr.is_loopback \/ ip_addr.is_link_local
             THEN "Cette adresse IP n'est pas autorisee"
             ELSE None

validate_ip(ip) ==
    LET ip_addr == ip_address(ip)
    IN  IF ip_addr.raised # None THEN "Adresse IP invalide"
        ELSE IF ip_addr.is_private \/ ip_addr.is_loopback \/ ip_addr.is_link_local
             THEN "Cette adresse IP n'est pas autorisee"
             ELSE None

validate_port(port) ==
    LET port_num == int(port)
    IN  IF port_num.raised # None THEN "Port doit etre un nombre"
        ELSE IF MinPort <= port_num.value /\ port_num.value <= MaxPort
             THEN None
             ELSE "Port doit etre entre 1 et 65535"

\* socket.create_connection: the outcome of the one attempt is the network's.
NetOutcomes == {"connected", "timeout", "refused", "oserror"}

\* is_port_open that returns False on a refusal only
is_port_open_unless_refused(net) == net # "refused"

is_port_open(net) == net = "connected"

----------------------------------------------------------------------------
(* Files and JSON *)

NoFile == [exists |-> FALSE, doc |-> "none", items |-> <<>>]

\* A file whose text json.load cannot parse.
CorruptFile == [exists |-> TRUE, doc |-> "garbage", items |-> <<>>]

json_dump_settings(ip, port) ==
    [exists |-> TRUE, doc |-> "object", items |-> <<<<"ip", ip, "port", port>>>>]

json_dump_history(history) ==
    [exists |-> TRUE, doc |-> "array",
     items |-> [i \in 1..Len(history) |->
                 <<"ip", history[i].ip, "port", history[i].port,
                   "status", history[i].status, "date", history[i].date>>]]

DefaultSettings == [ip |-> "", port |-> <<>>]

\* json.load of the settings file: the object, or JSONDecodeError.
json_load_settings(file) ==
    IF file.doc = "object"
    THEN [raised |-> None,
          value |-> [ip |-> file.items[1][2], port |-> file.items[1][4]]]
    ELSE [raised |-> "JSONDecodeError", value |-> DefaultSettings]

\* json.load of the history file: the array, or JSONDecodeError.
json_load_history(file) ==
    IF file.doc = "array"
    THEN [raised |-> None,
          value |-> [i \in 1..Len(file.items) |->
                      [ip |-> file.items[i][2], port |-> file.items[i][4],
                       status |-> file.items[i][6], date |-> file.items[i][8]]]]
    ELSE [raised |-> "JSONDecodeError", value |-> <<>>]

----------------------------------------------------------------------------
(* The loaders: what a call returns (or raises) and what it leaves cached *)

EmptySettingsCache == [hit |-> FALSE, value |-> DefaultSettings]

EmptyHistoryCache == [hit |-> FALSE, value |-> <<>>]

\* load_settings(): no try/except around json.load; a raise is not cached.
load_settings ==
    IF load_settings_cache.hit
    THEN [raised |-> None, value |-> load_settings_cache.value, cached |-> TRUE]
    ELSE IF ~settings_file.exists
         THEN [raised |-> None, value |-> DefaultSettings, cached |-> TRUE]
         ELSE LET r == json_load_settings(settings_file)
              IN  [raised |-> r.raised, value |-> r.value, cached |-> r.raised = None]

\* load_history(): FileNotFoundError and JSONDecodeError give [].
load_history ==
    IF load_history_cache.hit
    THEN load_history_cache.value
    ELSE IF ~history_file.exists
         THEN <<>>
         ELSE LET r == json_load_history(history_file)
              IN  IF r.raised # None THEN <<>> ELSE r.value

----------------------------------------------------------------------------
(* save_history's list computation, lines 30-38 *)

SameKey(item, ip, port) == item.ip = ip /\ item.port = port

RECURSIVE Without(_, _, _)
Without(history, ip, port) ==
    IF history = <<>> THEN <<>>
    ELSE IF SameKey(Head(history), ip, port)
         THEN Without(Tail(history), ip, port)
         ELSE <<Head(history)>> \o Without(Tail(history), ip, port)

LastN(s, n) == IF Len(s) <= n THEN s ELSE SubSeq(s, Len(s) - n + 1, Len(s))

new_entry(ip, port, status, date) ==
    [ip |-> ip, port |-> port, status |-> status, date |-> date]

\* save_history without line 36: the old entry of the pair stays
updated_history_without_upsert(history, ip, port, status, date) ==
    LastN(history \o <<new_entry(ip, port, status, date)>>, HistoryCap)

\* save_history without line 38: nothing is evicted
updated_history_uncapped(history, ip, port, status, date) ==
    Without(history, ip, port) \o <<new_entry(ip, port, status, date)>>

updated_history(history, ip, port, status, date) ==
    LastN(Without(history, ip, port) \o <<new_entry(ip, port, status, date)>>, HistoryCap)

----------------------------------------------------------------------------
(* Inputs *)

IpInputs == {"8.8.8.8", "2001:4860:4860::8888", "100.64.0.1", "192.168.1.1",
             "127.0.0.1", "169.254.1.1", "fe80::1", "not-an-ip"}

PortInputs == {Str(80), Str(65535), Str(0), Str(65536), <<"a", "b", "c">>}

Statuses == {"ouvert", "ferme"}

\* Entries a previous run left in the history file: distinct keys
\* ("8.8.8.8", "79"), ("8.8.8.8", "80"), ... in insertion order.
OldEntry(i) ==
    new_entry("8.8.8.8", Str(78 + i), IF i % 2 = 0 THEN "ouvert" ELSE "ferme", 0)

OldHistory(n) == [i \in 1..n |-> OldEntry(i)]

\* A hand-edited history with the key ("8.8.8.8", "80") twice.
DuplicatedHistory == <<OldEntry(2), OldEntry(3), OldEntry(2)>>

InitialHistoryLengths ==
    {0, 2, HistoryCap - 1, HistoryCap, HistoryCap + 1, HistoryCap + 2}

InitialHistoryFiles ==
    {NoFile, CorruptFile, json_dump_history(DuplicatedHistory)}
      \cup {json_dump_history(OldHistory(n)) : n \in InitialHistoryLengths}

InitialSettingsFiles ==
    {NoFile, CorruptFile, json_dump_settings("8.8.8.8", Str(80))}

\* The history files the application is started on.
ApplicationHistoryFiles ==
    {NoFile, CorruptFile, json_dump_history(OldHistory(2)),
     json_dump_history(OldHistory(HistoryCap))}

----------------------------------------------------------------------------
(* State *)

NoCall == [fn |-> "none", ip |-> "", port |-> <<>>, status |-> "", net |-> "",
           raised |-> None]

Call(fn, raised) == [NoCall EXCEPT !.fn = fn, !.raised = raised]

InitialUi == [state |-> "starting", ip_value |-> "", port_value |-> <<>>,
              ip_error |-> None, port_error |-> None, result |-> ""]

Init ==
    /\ settings_file \in InitialSettingsFiles
    /\ history_file \in InitialHistoryFiles
    /\ load_settings_cache = EmptySettingsCache
    /\ load_history_cache = EmptyHistoryCache
    /\ now = 0
    /\ call = NoCall
    /\ ret_settings = DefaultSettings
    /\ ret_history = <<>>
    /\ ui = InitialUi
    /\ effects = <<>>

----------------------------------------------------------------------------
(* The effect of each function on the records and the caches *)

\* lines 16-21, the cache slot after a call
load_settings_caches ==
    load_settings_cache' =
        IF load_settings.cached THEN [hit |-> TRUE, value |-> load_settings.value]
        ELSE load_settings_cache

\* save_settings without line 26: the cached settings stay
save_settings_keeps_cache(ip, port) ==
    /\ settings_file' = json_dump_settings(ip, port)
    /\ load_settings_cache' = load_settings_cache

\* lines 23-26
save_settings(ip, port) ==
    /\ settings_file' = json_dump_settings(ip, port)
    /\ load_settings_cache' = EmptySettingsCache

\* lines 42-48, the cache slot after a call
load_history_caches ==
    load_history_cache' = [hit |-> TRUE, value |-> load_history]

\* lines 28-40: load_history is never cache_clear'ed
save_history(ip, port, status) ==
    /\ load_history_caches
    /\ history_file' = json_dump_history(updated_history(load_history, ip, port, status, now))

----------------------------------------------------------------------------
(* The store's functions, called one at a time *)

LoadSettings ==
    /\ load_settings_caches
    /\ ret_settings' = IF load_settings.raised = None THEN load_settings.value
                       ELSE ret_settings
    /\ call' = Call("load_settings", load_settings.raised)
    /\ UNCHANGED <<settings_file, history_file, load_history_cache, now,
                   ret_history, ui, effects>>

SaveSettings ==
    \E ip \in IpInputs, port \in PortInputs :
        /\ save_settings(ip, port)
        /\ call' = [Call("save_settings", None) EXCEPT !.ip = ip, !.port = port]
        /\ UNCHANGED <<history_file, load_history_cache, now, ret_settings,
                       ret_history, ui, effects>>

LoadHistory ==
    /\ load_history_caches
    /\ ret_history' = load_history
    /\ call' = Call("load_history", None)
    /\ UNCHANGED <<settings_file, history_file, load_settings_cache, now,
                   ret_settings, ui, effects>>

SaveHistory ==
    \E ip \in IpInputs, port \in PortInputs, status \in Statuses :
        /\ save_history(ip, port, status)
        /\ call' = [Call("save_history", None) EXCEPT
                        !.ip = ip, !.port = port, !.status = status]
        /\ UNCHANGED <<settings_file, load_settings_cache, now, ret_settings,
                       ret_history, ui, effects>>

\* the wall clock advances between calls
Tick ==
    /\ now < MaxClock
    /\ now' = now + 1
    /\ UNCHANGED <<settings_file, history_file, load_settings_cache,
                   load_history_cache, call, ret_settings, ret_history, ui, effects>>

----------------------------------------------------------------------------
(* The application: PortScanner, its click handler, HistoryView *)

\* PortScanner._build, lines 66-69, run once by main: an exception of
\* load_settings leaves main, and no view is ever built.
BuildPortScanner ==
    /\ ui.state = "starting"
    /\ load_settings_caches
    /\ ret_settings' = IF load_settings.raised = None THEN load_settings.value
                       ELSE ret_settings
    /\ call' = Call("PortScanner._build", load_settings.raised)
    /\ ui' = IF load_settings.raised = None
             THEN [ui EXCEPT !.state = "running",
                             !.ip_value = load_settings.value.ip,
                             !.port_value = load_settings.value.port]
             ELSE [ui EXCEPT !.state = "crashed"]
    /\ UNCHANGED <<settings_file, history_file, load_history_cache, now,
                   ret_history, effects>>

\* line 113 with "and" for "or": one good field is enough
inputs_ok_either(ip_error, port_error) == ~(ip_error # None /\ port_error # None)

\* line 113: not (ip_error or port_error)
inputs_ok(ip_error, port_error) == ~(ip_error # None \/ port_error # None)

\* check_port, lines 106-124, with what the user typed in the two fields
check_port(ip, port) ==
    LET ip_error == validate_ip(ip)
        port_error == validate_port(port)
    IN  IF inputs_ok(ip_error, port_error)
        THEN \E net \in NetOutcomes :
               LET status == is_port_open(net)
                   status_text == IF status THEN "ouvert" ELSE "ferme"
               IN  /\ save_settings(ip, port)
                   /\ save_history(ip, port, status_text)
                   /\ effects' = <<"is_port_open", "save_settings", "save_history">>
                   /\ call' = [Call("check_port", None) EXCEPT
                                  !.ip = ip, !.port = port,
                                  !.status = status_text, !.net = net]
                   /\ ui' = [ui EXCEPT !.ip_value = ip, !.port_value = port,
                                       !.ip_error = ip_error,
                                       !.port_error = port_error,
                                       !.result = status_text]
        ELSE /\ effects' = <<>>
             /\ call' = [Call("check_port", None) EXCEPT !.ip = ip, !.port = port]
             /\ ui' = [ui EXCEPT !.ip_value = ip, !.port_value = port,
                                 !.ip_error = ip_error, !.port_error = port_error,
                                 !.result = "Veuillez corriger les erreurs dans les champs."]
             /\ UNCHANGED store_vars

CheckPort ==
    /\ ui.state = "running"
    /\ \E ip \in IpInputs, port \in PortInputs : check_port(ip, port)
    /\ UNCHANGED <<now, ret_settings, ret_history>>

\* HistoryView._build_history_list, lines 170-189, on every visit of /history
BuildHistoryView ==
    /\ ui.state = "running"
    /\ load_history_caches
    /\ ret_history' = load_history
    /\ call' = Call("HistoryView._build_history_list", None)
    /\ UNCHANGED <<settings_file, history_file, load_settings_cache, now,
                   ret_settings, ui, effects>>

----------------------------------------------------------------------------
(* Specifications *)

\* The application: its start and its two handlers.
ApplicationInit == Init /\ history_file \in ApplicationHistoryFiles

Next == BuildPortScanner \/ CheckPort \/ BuildHistoryView \/ Tick

Spec == ApplicationInit /\ [][Next]_vars

\* The settings functions and both loaders, called in any order.
SettingsNext == LoadSettings \/ SaveSettings \/ LoadHistory

SettingsSpec == Init /\ [][SettingsNext]_vars

\* The history functions, called in any order while the clock runs.
HistoryInit == Init /\ settings_file = NoFile

HistoryNext == LoadHistory \/ SaveHistory \/ Tick

HistorySpec == HistoryInit /\ [][HistoryNext]_vars

----------------------------------------------------------------------------
(* Vocabulary of the properties *)

\* The persisted history record as a sequence (empty when absent or corrupt).
Persisted == json_load_history(history_file).value

CountKey(history, ip, port) ==
    Cardinality({i \in 1..Len(history) : SameKey(history[i], ip, port)})

NoDuplicateKey(history) ==
    \A i, j \in 1..Len(history) :
        SameKey(history[i], history[j].ip, history[j].port) => i = j

Front(s) == SubSeq(s, 1, Len(s) - 1)

Last(s) == s[Len(s)]

\* A step that is one save_history call, directly or from check_port; the
\* call's arguments are call'.ip, call'.port, call'.status.
SaveHistoryStep == call'.fn = "save_history" /\ now' = now

\* A step that is one check_port call with the inputs call'.ip, call'.port.
CheckPortStep == call'.fn = "check_port" /\ now' = now

SavedEntry == new_entry(call'.ip, call'.port, call'.status, now)

----------------------------------------------------------------------------
(* C1-C5: the history record, under HistorySpec *)

\* C1: a load_history call that follows a save_history call returns exactly
\* the sequence that save_history wrote to the history record.
C1_LoadReturnsLastWritten ==
    [][(call.fn = "save_history" /\ call'.fn = "load_history")
        => ret_history' = json_load_history(history_file').value]_vars

\* C2: a save_history(a, p, s) call keeps every persisted entry whose key
\* differs from (a, p), with its content and in the same relative order,
\* except for the oldest ones the 30-entry cap evicts.
C2_SaveKeepsOtherEntries ==
    [][SaveHistoryStep
        => Front(Persisted') =
             LastN(Without(Persisted, call'.ip, call'.port), HistoryCap - 1)]_vars

\* C3: when the persisted record holds 30 entries with pairwise distinct keys
\* and save_history is called with a key not among them, the persisted record
\* becomes the previous entries 2..30 followed by the new entry.
C3_FullRecordEvictsOldest ==
    [][(/\ SaveHistoryStep
        /\ Len(Persisted) = HistoryCap
        /\ NoDuplicateKey(Persisted)
        /\ CountKey(Persisted, call'.ip, call'.port) = 0)
        => Persisted' = Tail(Persisted) \o <<SavedEntry>>]_vars

\* C4: when the persisted record has an entry for (a, p), after
\* save_history(a, p, s) it has exactly one entry for (a, p), the new one with
\* status s, as its last element; and a process started on a record without
\* duplicate keys (the record load_history first read and keeps cached) never
\* persists a history with two entries of one key.
C4_UpsertKeepsOneEntryPerKey ==
    /\ [][(SaveHistoryStep /\ CountKey(Persisted, call'.ip, call'.port) >= 1)
           => /\ CountKey(Persisted', call'.ip, call'.port) = 1
              /\ Last(Persisted') = SavedEntry]_vars
    /\ []((load_history_cache.hit /\ NoDuplicateKey(load_history_cache.value))
           => NoDuplicateKey(Persisted))

\* C4's case: the key ("8.8.8.8", "80") was persisted as "ouvert", and has
\* been saved again as "ferme", which is now the last and only entry of it.
C4_Witness ==
    /\ call.fn = "save_history" /\ call.ip = "8.8.8.8" /\ call.port = Str(80)
    /\ call.status = "ferme"
    /\ \E i \in 1..Len(load_history_cache.value) :
          /\ SameKey(load_history_cache.value[i], "8.8.8.8", Str(80))
          /\ load_history_cache.value[i].status = "ouvert"
    /\ Len(Persisted) > 1
    /\ Last(Persisted).status = "ferme"
    /\ CountKey(Persisted, "8.8.8.8", Str(80)) = 1

\* C5: after any save_history call, whatever was persisted or cached before,
\* the persisted record holds at most 30 entries and its last element is the
\* entry just saved.
C5_SaveCapsAndAppends ==
    [][SaveHistoryStep
        => /\ Len(Persisted') <= HistoryCap
           /\ Persisted' # <<>>
           /\ Last(Persisted') = SavedEntry]_vars

\* C5's case: a save on a record that held more than 30 entries.
C5_Witness ==
    /\ call.fn = "save_history"
    /\ Len(load_history_cache.value) > HistoryCap
    /\ Len(Persisted) = HistoryCap
    /\ SameKey(Last(Persisted), call.ip, call.port)

----------------------------------------------------------------------------
(* C6-C7: the settings record and the loaders, under SettingsSpec *)

\* C6: save_settings(a, p) followed by load_settings() returns {ip: a, port: p},
\* also when load_settings had cached an older value.
C6_SettingsRoundTrip ==
    [][(call.fn = "save_settings" /\ call'.fn = "load_settings")
        => /\ call'.raised = None
           /\ ret_settings' = [ip |-> call.ip, port |-> call.port]]_vars

\* C6's case: load_settings has returned a saved pair that no settings file
\* held at the start.
C6_Witness ==
    /\ call.fn = "load_settings"
    /\ ret_settings = [ip |-> "100.64.0.1", port |-> Str(65536)]
    /\ load_settings_cache.hit

\* C7: load_settings returns the zero-value settings when the settings record
\* is absent and when it is corrupt, load_history returns the empty sequence
\* in the same two cases, and neither call raises.
C7_DegradedReads ==
    /\ (call.fn = "load_settings" /\ settings_file \in {NoFile, CorruptFile})
          => (call.raised = None /\ ret_settings = DefaultSettings)
    /\ (call.fn = "load_history" /\ history_file \in {NoFile, CorruptFile})
          => (call.raised = None /\ ret_history = <<>>)

----------------------------------------------------------------------------
(* C8-C10: the click handler, under Spec *)

\* C8: when check_port runs with an address or a port that validation
\* rejects, no connection attempt is made and both persisted records are
\* left unchanged.
C8_InvalidInputShortCircuits ==
    [][(/\ CheckPortStep
        /\ (validate_ip(call'.ip) # None \/ validate_port(call'.port) # None))
        => /\ effects' = <<>>
           /\ settings_file' = settings_file
           /\ history_file' = history_file]_vars

\* C8's case: a private address with a good port has been checked.
C8_Witness ==
    /\ call.fn = "check_port" /\ call.ip = "192.168.1.1" /\ call.port = Str(80)
    /\ ui.ip_error # None /\ ui.port_error = None
    /\ effects = <<>>

\* C9: when check_port runs with an address and a port that both validate,
\* one connection attempt is made, and after it the settings record is
\* overwritten with (ip, port) and the history record gets one entry for
\* (ip, port), its last, whose status is "ouvert" exactly when the connection
\* completed and "ferme" on every failure.
C9_ValidInputPipeline ==
    [][(/\ CheckPortStep
        /\ validate_ip(call'.ip) = None /\ validate_port(call'.port) = None)
        => /\ effects' = <<"is_port_open", "save_settings", "save_history">>
           /\ json_load_settings(settings_file') =
                [raised |-> None, value |-> [ip |-> call'.ip, port |-> call'.port]]
           /\ CountKey(Persisted', call'.ip, call'.port) = 1
           /\ SameKey(Last(Persisted'), call'.ip, call'.port)
           /\ Last(Persisted').date = now
           /\ (Last(Persisted').status = "ouvert") = (call'.net = "connected")
           /\ (Last(Persisted').status = "ferme") = (call'.net # "connected")]_vars

\* C9's case: a check whose connection attempt timed out is on record as
\* "ferme", and the settings hold its inputs.
C9_Witness ==
    /\ call.fn = "check_port" /\ call.net = "timeout"
    /\ effects = <<"is_port_open", "save_settings", "save_history">>
    /\ settings_file = json_dump_settings(call.ip, call.port)
    /\ Persisted # <<>>
    /\ Last(Persisted).status = "ferme"

\* C10 as stated: validate_ip reports the invalid-format error for every
\* string that is no address, the not-allowed error for every private,
\* loopback or link-local address, and no error only for globally routable
\* addresses.
C10_OnlyGlobalAddressesPass ==
    call.fn = "check_port"
        => LET a == ip_address(call.ip)
           IN  /\ a.raised # None => ui.ip_error = "Adresse IP invalide"
               /\ (a.raised = None /\ (a.is_private \/ a.is_loopback \/ a.is_link_local))
                     => ui.ip_error = "Cette adresse IP n'est pas autorisee"
               /\ ui.ip_error = None => a.is_global

\* C10 amended: the invalid-format error for every string that is no address,
\* the not-allowed error for every private, loopback or link-local address,
\* and no error for every other address, globally routable or not.
C10_AddressValidationClasses ==
    call.fn = "check_port"
        => LET a == ip_address(call.ip)
               refused == a.is_private \/ a.is_loopback \/ a.is_link_local
           IN  /\ (ui.ip_error = "Adresse IP invalide") = (a.raised # None)
               /\ (ui.ip_error = "Cette adresse IP n'est pas autorisee")
                     = (a.raised = None /\ refused)
               /\ (ui.ip_error = None) = (a.raised = None /\ ~refused)

\* C10's case: an address of the shared address space 100.64.0.0/10, which is
\* not globally routable, has passed validation and been probed.
C10_Witness ==
    /\ call.fn = "check_port" /\ call.ip = "100.64.0.1"
    /\ ~ip_address(call.ip).is_global
    /\ ui.ip_error = None
    /\ effects # <<>>

====
